---- MODULE Spec2Model ----
(***************************************************************************)
(* Model of number_sticks.py: the seven-segment "number sticks" solver.    *)
(* Digits are sets of sticks, compute_moves is the toggle cost between two *)
(* digits, candidate_numbers lists the same-length numbers within a move  *)
(* cutoff, and find_lowest_sum / find_lowest_sub join three candidate      *)
(* lists into valid equations.                                             *)
(***************************************************************************)
EXTENDS Integers, Sequences, FiniteSets, TLC

VARIABLES FROM_TO_CACHE, call, ret, pc, heap, iter, generated

vars == <<FROM_TO_CACHE, call, ret, pc, heap, iter, generated>>

---------------------------------------------------------------------------
(* Bounds of the model and constants of the program.                       *)

\* candidate_numbers is called on the targets 0..MaxTarget and TEST_TARGET
MaxTarget == 12
\* the solvers are called on the operands 0..MaxOperand and on TEST_QUERY
MaxOperand == 2
\* cutoffs given to candidate_numbers and to the solvers: 0..MaxCutoff
MaxCutoff == 6
\* the stepped join runs on the operands 0..MaxJoinOperand
MaxJoinOperand == 1
\* the stepped join runs with the total cutoffs 0..MaxJoinCutoff
MaxJoinCutoff == 3

DEFAULT_MOVE_CUTOFF == 6
\* a tighter pruning of the operands
TighterOperandCutoff == 4 - 1

\* the move cutoff find_lowest_sum / find_lowest_sub give candidate_numbers
OPERAND_CUTOFF == 4
\* candidate_numbers(55, 3) of test_candidate_numbers
TEST_TARGET == 55
TEST_TARGET_CUTOFF == 3
\* find_lowest_sum(59, 12, 98) of the tests
TEST_QUERY == <<59, 12, 98>>

Digits == 0..9

\* STICK_SETS: the sticks of each digit
STICK_SETS ==
    [d \in Digits |->
        CASE d = 0 -> {1, 2, 3, 4, 5, 6}
          [] d = 1 -> {2, 3}
          [] d = 2 -> {1, 2, 4, 5, 7}
          [] d = 3 -> {1, 4, 7, 5, 6}
          [] d = 4 -> {3, 7, 5, 6}
          [] d = 5 -> {1, 4, 7, 3, 6}
          [] d = 6 -> {1, 2, 3, 4, 6, 7}
          [] d = 7 -> {4, 5, 6}
          [] d = 8 -> {1, 2, 3, 4, 5, 6, 7}
          [] d = 9 -> {1, 3, 4, 5, 6, 7}]

---------------------------------------------------------------------------
(* Strings of decimal digits: str, zfill, int, "".join.                    *)

DigitChars == <<"0", "1", "2", "3", "4", "5", "6", "7", "8", "9">>

\* str(d) of one digit
StrDigit(d) == DigitChars[d + 1]

\* int(n) of a one-character string
IntChar(c) == (CHOOSE i \in 1..10 : DigitChars[i] = c) - 1

\* the number of characters of str(val), val >= 0
StrLen(val) == CHOOSE p \in 1..12 : val < 10 ^ p /\ (p = 1 \/ val >= 10 ^ (p - 1))

\* str(val): the decimal digits of val, most significant first, no leading zero
Str(val) == [i \in 1..StrLen(val) |-> StrDigit((val \div (10 ^ (StrLen(val) - i))) % 10)]

\* s.zfill(width): zeros on the left up to width, s itself when it is longer
Zfill(s, width) ==
    IF Len(s) >= width THEN s
    ELSE [i \in 1..width |-> IF i <= width - Len(s) THEN "0" ELSE s[i - (width - Len(s))]]

\* [int(n) for n in list(s)]
IntList(s) == [i \in 1..Len(s) |-> IntChar(s[i])]

\* "".join([str(x) for x in possible])
JoinStr(possible) == [i \in 1..Len(possible) |-> StrDigit(possible[i])]

\* the value of the first n characters of s read as a decimal number
RECURSIVE IntPrefix(_, _)
IntPrefix(s, n) == IF n = 0 THEN 0 ELSE 10 * IntPrefix(s, n - 1) + IntChar(s[n])

\* int(s) of a string of decimal digits (leading zeros allowed)
IntStr(s) == IntPrefix(s, Len(s))

---------------------------------------------------------------------------
(* ValueMove                                                               *)

ValueMove(value, moves) == [value |-> value, moves |-> moves]

\* a comparison on the value instead
ValueMoveLtOnValue(a, b) == a.value < b.value

\* ValueMove.__lt__: on moves only
ValueMoveLt(a, b) == a.moves < b.moves

\* ValueMove.__str__: "value(moves)", kept as the pair of its two numbers
ValueMoveStr(vm) == <<vm.value, vm.moves>>

---------------------------------------------------------------------------
(* compute_moves, populate_cache                                           *)

\* the sticks to take away only, the sticks to add forgotten
compute_moves_sub_only(from_val, to_val) ==
    Cardinality(STICK_SETS[from_val] \ STICK_SETS[to_val])

compute_moves(from_val, to_val) ==
    LET from_sticks == STICK_SETS[from_val]
        to_sticks == STICK_SETS[to_val]
        sub == Cardinality(from_sticks \ to_sticks)
        add == Cardinality(to_sticks \ from_sticks)
    IN  sub + add

\* the cache after populate_cache(): every row 0..9 is replaced, other keys stay
populate_cache(cache) ==
    [from_val \in (DOMAIN cache) \cup Digits |->
        IF from_val \in Digits
        THEN [to_val \in Digits |-> compute_moves(from_val, to_val)]
        ELSE cache[from_val]]

---------------------------------------------------------------------------
(* sorted(): a stable sort                                                 *)

\* the comparison a sort uses: ValueMove.__lt__, or < on the key x.moves
Less(cmp, a, b) == IF cmp = "__lt__" THEN ValueMoveLt(a, b) ELSE a.moves < b.moves

\* x put into the sorted sequence s behind every element that is not greater
Insert(s, x, cmp) ==
    LET keep == Cardinality({p \in 1..Len(s) : ~Less(cmp, x, s[p])})
    IN  [p \in 1..(Len(s) + 1) |->
            IF p <= keep THEN s[p] ELSE IF p = keep + 1 THEN x ELSE s[p - 1]]

\* the elements lo..hi of seq inserted one after the other, left to right
\* (the left half is evaluated before the right half is started)
RECURSIVE InsertAll(_, _, _, _, _)
InsertAll(acc, seq, lo, hi, cmp) ==
    IF lo > hi THEN acc
    ELSE IF lo = hi THEN Insert(acc, seq[lo], cmp)
    ELSE LET mid == (lo + hi) \div 2
             left == InsertAll(acc, seq, lo, mid, cmp)
         IN  IF Len(left) >= 0 THEN InsertAll(left, seq, mid + 1, hi, cmp) ELSE left

\* sorted(seq): ascending by ValueMove.__lt__, equal elements in their order
Sorted(seq) == InsertAll(<<>>, seq, 1, Len(seq), "__lt__")

\* sorted(seq, key=lambda x: x.moves)
SortedByMoves(seq) == InsertAll(<<>>, seq, 1, Len(seq), "key")

---------------------------------------------------------------------------
(* generate_numbers, candidate_numbers                                     *)

\* generate_numbers raises ValueError
GenerateRaises(positions) == positions < 1

\* the range started at 1: [0, ..., 0] is never yielded
generate_numbers_from_one(positions) ==
    [n \in 1..(10 ^ positions - 1) |-> IntList(Zfill(Str(n), positions))]

\* the lists generate_numbers(positions) yields, in order
generate_numbers(positions) ==
    [n \in 1..(10 ^ positions) |-> IntList(Zfill(Str(n - 1), positions))]

\* moves summed over zip(target_list, possible)
RECURSIVE ZipMoves(_, _, _)
ZipMoves(target_list, possible, n) ==
    IF n = 0 THEN 0
    ELSE ZipMoves(target_list, possible, n - 1) + compute_moves(target_list[n], possible[n])

MinLen(s, t) == IF Len(s) <= Len(t) THEN Len(s) ELSE Len(t)

\* the test written with >=
AtOrOverCutoff(moves, move_cutoff) == moves >= move_cutoff

\* the test written the wrong way round
UnderCutoff(moves, move_cutoff) == moves < move_cutoff

\* the test "if moves > cutoff: continue" of candidate_numbers and of the solvers
OverCutoff(moves, move_cutoff) == moves > move_cutoff

\* candidate_numbers(target_num, move_cutoff), when generate_numbers does not raise
candidate_numbers(target_num, move_cutoff) ==
    LET target_list == IntList(Str(target_num))
        positions == Len(target_list)
        gen == generate_numbers(positions)
        scored == [n \in 1..Len(gen) |->
                      ValueMove(IntStr(JoinStr(gen[n])),
                                ZipMoves(target_list, gen[n], MinLen(target_list, gen[n])))]
        candidates == SelectSeq(scored, LAMBDA vm : ~OverCutoff(vm.moves, move_cutoff))
    IN  Sorted(candidates)

\* candidate_numbers raises: generate_numbers(positions) does
CandidateRaises(target_num) == GenerateRaises(Len(IntList(Str(target_num))))

---------------------------------------------------------------------------
(* The objects a solver call works on. A reference names an object: an     *)
(* entry of one of the three candidate lists, or the object the last       *)
(* __add__ / __sub__ made. heap.temp is the reference the variable temp    *)
(* holds.                                                                  *)

FirstRef(i) == <<"first", i>>
SecondRef(j) == <<"second", j>>
SumRef(k) == <<"sum", k>>
NewRef == <<"new", 0>>
NoRef == <<"unbound", 0>>

Deref(h, r) ==
    CASE r[1] = "first" -> h.first_candidates[r[2]]
      [] r[1] = "second" -> h.second_candidates[r[2]]
      [] r[1] = "sum" -> h.sum_candidates[r[2]]
      [] r[1] = "new" -> h.new

\* the object r refers to is given the fields of vm
Store(h, r, vm) ==
    CASE r[1] = "first" -> [h EXCEPT !.first_candidates[r[2]] = vm]
      [] r[1] = "second" -> [h EXCEPT !.second_candidates[r[2]] = vm]
      [] r[1] = "sum" -> [h EXCEPT !.sum_candidates[r[2]] = vm]
      [] r[1] = "new" -> [h EXCEPT !.new = vm]

\* self += other (ValueMove.__iadd__): self is changed in place and returned
ValueMoveIAdd(h, self, other) ==
    [Store(h, self, ValueMove(Deref(h, self).value + Deref(h, other).value,
                              Deref(h, self).moves + Deref(h, other).moves))
        EXCEPT !.temp = self]

\* temp = self + other (ValueMove.__add__): a new object, bound to temp
ValueMoveAdd(h, self, other) ==
    [h EXCEPT !.new = ValueMove(Deref(h, self).value + Deref(h, other).value,
                                Deref(h, self).moves + Deref(h, other).moves),
              !.temp = NewRef]

\* the values added as in __add__
ValueMoveSubAdds(h, self, other) ==
    [h EXCEPT !.new = ValueMove(Deref(h, self).value + Deref(h, other).value,
                                Deref(h, self).moves + Deref(h, other).moves),
              !.temp = NewRef]

\* temp = self - other (ValueMove.__sub__): a new object, bound to temp
ValueMoveSub(h, self, other) ==
    [h EXCEPT !.new = ValueMove(Deref(h, self).value - Deref(h, other).value,
                                Deref(h, self).moves + Deref(h, other).moves),
              !.temp = NewRef]

\* f"{first} {op} {second} = {total}, takes {moves} moves."
Format(first, op, second, total, moves) ==
    <<ValueMoveStr(first), op, ValueMoveStr(second), "=", ValueMoveStr(total), moves>>

\* the swap from + to - left uncounted
NoSubPenalty == 1 - 1

\* the move added to temp.moves for the swap from + to -
SubPenalty == 1

\* the objects of a call: the three candidate lists, no answer yet
JoinHeap(val1, val2, val_sum) ==
    [first_candidates |-> candidate_numbers(val1, OPERAND_CUTOFF),
     second_candidates |-> candidate_numbers(val2, OPERAND_CUTOFF),
     sum_candidates |-> candidate_numbers(val_sum, OPERAND_CUTOFF),
     new |-> ValueMove(0, 0),
     temp |-> NoRef,
     answers |-> <<>>]

\* the number of passes through the innermost loop body
JoinSize(h) == Len(h.sum_candidates) * Len(h.first_candidates) * Len(h.second_candidates)

\* the positions (total, first, second) of pass n of the three nested loops
TotalAt(h, n) == ((n - 1) \div (Len(h.first_candidates) * Len(h.second_candidates))) + 1
FirstAt(h, n) == (((n - 1) \div Len(h.second_candidates)) % Len(h.first_candidates)) + 1
SecondAt(h, n) == ((n - 1) % Len(h.second_candidates)) + 1

\* the rest of the loop body once temp is bound (both solvers)
JoinTail(h1, op, penalty, first, second, total, total_cutoff) ==
    IF Deref(h1, h1.temp).value = Deref(h1, total).value
    THEN LET h2 == Store(h1, h1.temp,
                         [Deref(h1, h1.temp) EXCEPT
                              !.moves = @ + Deref(h1, total).moves + penalty])
             moves == Deref(h2, h2.temp).moves
         IN  IF OverCutoff(moves, total_cutoff)
             THEN h2
             ELSE [h2 EXCEPT !.answers =
                      Append(@, ValueMove(Format(Deref(h2, first), op, Deref(h2, second),
                                                 Deref(h2, total), moves), moves))]
    ELSE h1

\* one pass of the body of find_lowest_sum's loops
SumBody(h, n, total_cutoff) ==
    LET first == FirstRef(FirstAt(h, n))
        second == SecondRef(SecondAt(h, n))
        total == SumRef(TotalAt(h, n))
    IN  JoinTail(ValueMoveAdd(h, first, second), "+", 0, first, second, total, total_cutoff)

\* one pass of the body of find_lowest_sub's loops
SubBody(h, n, total_cutoff) ==
    LET first == FirstRef(FirstAt(h, n))
        second == SecondRef(SecondAt(h, n))
        total == SumRef(TotalAt(h, n))
    IN  JoinTail(ValueMoveSub(h, first, second), "-", SubPenalty, first, second, total,
                 total_cutoff)

JoinBody(fn, h, n, total_cutoff) ==
    IF fn = "find_lowest_sum" THEN SumBody(h, n, total_cutoff) ELSE SubBody(h, n, total_cutoff)

\* the passes lo..hi run one after the other
\* (the first half is evaluated before the second half is started)
RECURSIVE JoinLoop(_, _, _, _, _)
JoinLoop(fn, h, lo, hi, total_cutoff) ==
    IF lo > hi THEN h
    ELSE IF lo = hi THEN JoinBody(fn, h, lo, total_cutoff)
    ELSE LET mid == (lo + hi) \div 2
             left == JoinLoop(fn, h, lo, mid, total_cutoff)
         IN  IF Len(left.answers) >= 0
             THEN JoinLoop(fn, left, mid + 1, hi, total_cutoff)
             ELSE left

\* the objects when the loops of a solver are over
JoinEnd(fn, val1, val2, val_sum, total_cutoff) ==
    LET h == JoinHeap(val1, val2, val_sum)
    IN  JoinLoop(fn, h, 1, JoinSize(h), total_cutoff)

find_lowest_sum(val1, val2, val_sum, total_cutoff) ==
    SortedByMoves(JoinEnd("find_lowest_sum", val1, val2, val_sum, total_cutoff).answers)

find_lowest_sub(val1, val2, val_sum, total_cutoff) ==
    SortedByMoves(JoinEnd("find_lowest_sub", val1, val2, val_sum, total_cutoff).answers)

\* a solver raises: one of its three candidate_numbers calls does
SolverRaises(val1, val2, val_sum) ==
    CandidateRaises(val1) \/ CandidateRaises(val2) \/ CandidateRaises(val_sum)

---------------------------------------------------------------------------
(* The calls made on the module.                                           *)

Targets == (0..MaxTarget) \cup {TEST_TARGET}
Cutoffs == 0..MaxCutoff
Operands == 0..MaxOperand
\* the queries given to the solvers, each with its total cutoff
Queries ==
    {<<a, b, c, k>> : a \in Operands, b \in Operands, c \in Operands, k \in Cutoffs}
    \cup {<<TEST_QUERY[1], TEST_QUERY[2], TEST_QUERY[3], k>> : k \in {4, DEFAULT_MOVE_CUTOFF}}
JoinOperands == 0..MaxJoinOperand
JoinCutoffs == 0..MaxJoinCutoff

NoCall == [fn |-> "none", args |-> <<>>, cutoff |-> 0]
NoRet == [raised |-> FALSE, value |-> <<>>]
NoHeap == [first_candidates |-> <<>>, second_candidates |-> <<>>, sum_candidates |-> <<>>,
           new |-> ValueMove(0, 0), temp |-> NoRef, answers |-> <<>>]
Returned(value) == [raised |-> FALSE, value |-> value]
Raised == [raised |-> TRUE, value |-> <<>>]

Init ==
    /\ FROM_TO_CACHE = <<>>
    /\ call = NoCall
    /\ ret = NoRet
    /\ pc = "idle"
    /\ heap = NoHeap
    /\ iter = 0
    /\ generated = NoHeap

\* main() and the session fixture of the tests run populate_cache() before
\* the first call of candidate_numbers or of a solver
Populated == DOMAIN FROM_TO_CACHE = Digits

\* populate_cache(), on an empty cache or on a populated one
PopulateCache ==
    /\ call = NoCall
    /\ FROM_TO_CACHE' = populate_cache(FROM_TO_CACHE)
    /\ UNCHANGED <<call, ret, pc, heap, iter, generated>>

\* FROM_TO_CACHE = {} (test_populate_cache, before it populates again)
ResetCache ==
    /\ call = NoCall
    /\ Populated
    /\ FROM_TO_CACHE' = <<>>
    /\ UNCHANGED <<call, ret, pc, heap, iter, generated>>

\* candidate_numbers(target_num, move_cutoff)
CandidateNumbers ==
    /\ call = NoCall
    /\ Populated
    /\ \E target_num \in Targets, move_cutoff \in Cutoffs :
        /\ call' = [fn |-> "candidate_numbers", args |-> <<target_num>>,
                    cutoff |-> move_cutoff]
        /\ ret' = IF CandidateRaises(target_num) THEN Raised
                  ELSE Returned(candidate_numbers(target_num, move_cutoff))
    /\ UNCHANGED <<FROM_TO_CACHE, pc, heap, iter, generated>>

\* find_lowest_sum(val1, val2, val_sum, total_cutoff=total_cutoff)
FindLowestSum ==
    /\ call = NoCall
    /\ Populated
    /\ \E q \in Queries :
        /\ call' = [fn |-> "find_lowest_sum", args |-> <<q[1], q[2], q[3]>>, cutoff |-> q[4]]
        /\ ret' = IF SolverRaises(q[1], q[2], q[3]) THEN Raised
                  ELSE Returned(find_lowest_sum(q[1], q[2], q[3], q[4]))
    /\ UNCHANGED <<FROM_TO_CACHE, pc, heap, iter, generated>>

\* find_lowest_sub(val1, val2, val_sum, total_cutoff=total_cutoff)
FindLowestSub ==
    /\ call = NoCall
    /\ Populated
    /\ \E q \in Queries :
        /\ call' = [fn |-> "find_lowest_sub", args |-> <<q[1], q[2], q[3]>>, cutoff |-> q[4]]
        /\ ret' = IF SolverRaises(q[1], q[2], q[3]) THEN Raised
                  ELSE Returned(find_lowest_sub(q[1], q[2], q[3], q[4]))
    /\ UNCHANGED <<FROM_TO_CACHE, pc, heap, iter, generated>>

Next == PopulateCache \/ ResetCache \/ CandidateNumbers \/ FindLowestSum \/ FindLowestSub

Spec == Init /\ [][Next]_vars

---------------------------------------------------------------------------
(* A solver call taken one pass of its innermost loop at a time.           *)

\* the call starts: the three candidate lists are made
JoinBegin ==
    /\ pc = "idle"
    /\ Populated
    /\ \E fn \in {"find_lowest_sum", "find_lowest_sub"},
          val1 \in JoinOperands, val2 \in JoinOperands, val_sum \in JoinOperands,
          total_cutoff \in JoinCutoffs :
        /\ ~SolverRaises(val1, val2, val_sum)
        /\ call' = [fn |-> fn, args |-> <<val1, val2, val_sum>>, cutoff |-> total_cutoff]
        /\ heap' = JoinHeap(val1, val2, val_sum)
        /\ generated' = JoinHeap(val1, val2, val_sum)
    /\ iter' = 1
    /\ pc' = "loop"
    /\ UNCHANGED <<FROM_TO_CACHE, ret>>

\* one pass of the innermost loop body
JoinStep ==
    /\ pc = "loop"
    /\ iter <= JoinSize(heap)
    /\ heap' = JoinBody(call.fn, heap, iter, call.cutoff)
    /\ iter' = iter + 1
    /\ UNCHANGED <<FROM_TO_CACHE, call, ret, pc, generated>>

\* the loops are over: return sorted(answers, key=lambda x: x.moves)
JoinReturn ==
    /\ pc = "loop"
    /\ iter > JoinSize(heap)
    /\ ret' = Returned(SortedByMoves(heap.answers))
    /\ pc' = "done"
    /\ UNCHANGED <<FROM_TO_CACHE, call, heap, iter, generated>>

NextJoin == PopulateCache \/ JoinBegin \/ JoinStep \/ JoinReturn

SpecJoin == Init /\ [][NextJoin]_vars

---------------------------------------------------------------------------
(* What the results are measured against: the cost of a digit change as    *)
(* the size of the symmetric difference of the two stick sets, and the     *)
(* cost of a number as the sum over its decimal positions.                 *)

Range(seq) == {seq[i] : i \in DOMAIN seq}

SymDiff(x, y) == Cardinality((STICK_SETS[x] \ STICK_SETS[y]) \cup (STICK_SETS[y] \ STICK_SETS[x]))

\* the number of decimal digits of t >= 0
Positions(t) == CHOOSE p \in 1..6 : t < 10 ^ p /\ \A q \in 1..(p - 1) : t >= 10 ^ q

\* digit i (1 = most significant) of v written with p digits
DigitAt(v, p, i) == (v \div (10 ^ (p - i))) % 10

RECURSIVE CostUpTo(_, _, _, _)
CostUpTo(target, v, p, i) ==
    IF i = 0 THEN 0
    ELSE CostUpTo(target, v, p, i - 1) + SymDiff(DigitAt(target, p, i), DigitAt(v, p, i))

\* cost(v, target): v zero-padded to the length of target
NumCost(target, v) == CostUpTo(target, v, Positions(target), Positions(target))

\* the values a candidate of target may take
Below(target) == 0..(10 ^ Positions(target) - 1)

IsSolver == call.fn \in {"find_lowest_sum", "find_lowest_sub"}
IsSum == call.fn = "find_lowest_sum"
Penalty == IF IsSum THEN 0 ELSE 1
Relate(x, y) == IF IsSum THEN x + y ELSE x - y
TripleCost(x, y) ==
    NumCost(call.args[1], x) + NumCost(call.args[2], y)
        + NumCost(call.args[3], Relate(x, y)) + Penalty

\* the pairs (a', b') whose triple (a', b', a' op b') qualifies under cutoff k
Qualifying(k) ==
    {xy \in Below(call.args[1]) \X Below(call.args[2]) :
        /\ Relate(xy[1], xy[2]) \in Below(call.args[3])
        /\ TripleCost(xy[1], xy[2]) <= k}

\* the entry of the triple (x, y, x op y)
EntryOf(x, y) ==
    [value |-> << <<x, NumCost(call.args[1], x)>>,
                  IF IsSum THEN "+" ELSE "-",
                  <<y, NumCost(call.args[2], y)>>,
                  "=",
                  <<Relate(x, y), NumCost(call.args[3], Relate(x, y))>>,
                  TripleCost(x, y) >>,
     moves |-> TripleCost(x, y)]

IsTestQuery == IsSolver /\ call.args = TEST_QUERY

---------------------------------------------------------------------------
(* C1: find_lowest_sum is complete for every cutoff 1..20: each triple     *)
(* (a', b', c') of same-length values with a' + b' = c' and total cost     *)
(* <= cutoff has its entry in the returned sequence.                       *)
C1_SumCompleteAllCutoffs ==
    (IsSum /\ call.cutoff >= 1 /\ call.cutoff <= 20) =>
        \A xy \in Qualifying(call.cutoff) : EntryOf(xy[1], xy[2]) \in Range(ret.value)

(* C2: every entry a solver returns is a triple of same-length values that *)
(* satisfies the relation (a' + b' = c', or a' - b' = c'), carries exactly *)
(* the sum of the three costs (plus 1 for the subtraction) and stays       *)
(* within the cutoff; the call never raises, and with no qualifying triple *)
(* the result is the empty sequence.                                       *)
C2_Sound ==
    IsSolver =>
        /\ ~ret.raised
        /\ \A n \in DOMAIN ret.value :
            LET e == ret.value[n]
                x == e.value[1][1]
                y == e.value[3][1]
                z == e.value[5][1]
            IN  /\ x \in Below(call.args[1])
                /\ y \in Below(call.args[2])
                /\ z \in Below(call.args[3])
                /\ z = Relate(x, y)
                /\ e.value[2] = (IF IsSum THEN "+" ELSE "-")
                /\ e.value[1][2] = NumCost(call.args[1], x)
                /\ e.value[3][2] = NumCost(call.args[2], y)
                /\ e.value[5][2] = NumCost(call.args[3], z)
                /\ e.moves = e.value[1][2] + e.value[3][2] + e.value[5][2] + Penalty
                /\ e.value[6] = e.moves
                /\ e.moves <= call.cutoff
        /\ (ret.value = <<>> \/ Qualifying(call.cutoff) # {})

C2_Witness ==
    /\ call.fn = "find_lowest_sub"
    /\ Len(ret.value) >= 2
    /\ \E n \in DOMAIN ret.value : ret.value[n].value[3][2] > 0

(* C3: candidate_numbers(target, cutoff) has exactly one entry for each    *)
(* value of [0, 10^p) whose cost is <= cutoff and no other entry, each     *)
(* with its cost summed over the p zero-padded positions; generate_numbers *)
(* yields the p-digit lists in ascending numeric order from [0, ..., 0].   *)
C3_CandidatesExact ==
    call.fn = "candidate_numbers" =>
        LET target == call.args[1]
            p == Positions(target)
            gen == generate_numbers(p)
        IN  /\ ~ret.raised
            /\ {e.value : e \in Range(ret.value)}
                   = {v \in Below(target) : NumCost(target, v) <= call.cutoff}
            /\ \A e \in Range(ret.value) : e.moves = NumCost(target, e.value)
            /\ \A m, n \in DOMAIN ret.value : m # n => ret.value[m].value # ret.value[n].value
            /\ Len(gen) = 10 ^ p
            /\ \A n \in DOMAIN gen :
                /\ Len(gen[n]) = p
                /\ \A i \in 1..p : gen[n][i] = DigitAt(n - 1, p, i)

C3_Witness ==
    /\ call.fn = "candidate_numbers"
    /\ call.args[1] >= 10
    /\ \E e \in Range(ret.value) : e.value < 10 /\ e.moves > 0

(* C4: every returned sequence is in non-decreasing order of cost; in      *)
(* candidate_numbers entries of equal cost are in ascending order of       *)
(* value, and candidate_numbers(55, 3) begins 55, 56, 59, 65 with its      *)
(* fourth entry at cost 1.                                                 *)
C4_Ordered ==
    /\ \A m, n \in DOMAIN ret.value : m < n => ret.value[m].moves <= ret.value[n].moves
    /\ call.fn = "candidate_numbers" =>
        /\ \A m, n \in DOMAIN ret.value :
            (m < n /\ ret.value[m].moves = ret.value[n].moves)
                => ret.value[m].value < ret.value[n].value
        /\ (call.args[1] = TEST_TARGET /\ call.cutoff = TEST_TARGET_CUTOFF) =>
            /\ Len(ret.value) >= 4
            /\ [n \in 1..4 |-> ret.value[n].value] = <<55, 56, 59, 65>>
            /\ ret.value[4].moves = 1

C4_Witness ==
    /\ call.fn = "candidate_numbers"
    /\ call.args[1] = TEST_TARGET
    /\ call.cutoff = TEST_TARGET_CUTOFF
    /\ Len(ret.value) > 4

(* C5: raising the cutoff never removes a result: every entry returned     *)
(* with cutoff k1 is returned with every cutoff k2 >= k1, by               *)
(* candidate_numbers, find_lowest_sum and find_lowest_sub.                 *)
C5_Monotone ==
    \A k2 \in call.cutoff..MaxCutoff :
        /\ call.fn = "candidate_numbers" =>
            Range(ret.value) \subseteq Range(candidate_numbers(call.args[1], k2))
        /\ call.fn = "find_lowest_sum" =>
            Range(ret.value) \subseteq
                Range(find_lowest_sum(call.args[1], call.args[2], call.args[3], k2))
        /\ call.fn = "find_lowest_sub" =>
            Range(ret.value) \subseteq
                Range(find_lowest_sub(call.args[1], call.args[2], call.args[3], k2))

C5_Witness ==
    /\ call.fn = "find_lowest_sum"
    /\ call.cutoff < MaxCutoff
    /\ ret.value # <<>>
    /\ Len(find_lowest_sum(call.args[1], call.args[2], call.args[3], call.cutoff + 1))
           > Len(ret.value)

(* C6: candidate_numbers(target, 0) returns exactly one entry, the target  *)
(* itself at cost 0; no two distinct digits have the same stick set.       *)
C6_CutoffZero ==
    /\ (call.fn = "candidate_numbers" /\ call.cutoff = 0) =>
        ret.value = <<[value |-> call.args[1], moves |-> 0]>>
    /\ \A x, y \in Digits : x # y => STICK_SETS[x] # STICK_SETS[y]

C6_Witness ==
    /\ call.fn = "candidate_numbers"
    /\ call.cutoff = 0
    /\ call.args[1] >= 10
    /\ Len(ret.value) = 1

(* C7: compute_moves(x, y) is the size of the symmetric difference of the  *)
(* two stick sets, is symmetric, is 0 on (x, x) and 3 on (4, 5); once      *)
(* populate_cache has run, once or again, FROM_TO_CACHE holds exactly the  *)
(* 100 values FROM_TO_CACHE[x][y] = compute_moves(x, y).                   *)
C7_MoveTable ==
    /\ \A x, y \in Digits :
        /\ compute_moves(x, y) = SymDiff(x, y)
        /\ compute_moves(x, y) = compute_moves(y, x)
        /\ compute_moves(x, x) = 0
    /\ compute_moves(4, 5) = 3
    /\ FROM_TO_CACHE # <<>> =>
        /\ DOMAIN FROM_TO_CACHE = Digits
        /\ \A x \in Digits :
            /\ DOMAIN FROM_TO_CACHE[x] = Digits
            /\ \A y \in Digits : FROM_TO_CACHE[x][y] = SymDiff(x, y)
        /\ FROM_TO_CACHE[4][4] = 0
        /\ FROM_TO_CACHE[4][5] = 3

C7_Witness ==
    /\ Populated
    /\ FROM_TO_CACHE[4][5] = 3
    /\ FROM_TO_CACHE[1][7] = 5

(* C8: for 59 + 12 = 98 with cutoff 4 and with the default cutoff 6,       *)
(* find_lowest_sum returns a non-empty sequence of minimum cost 4 whose    *)
(* first entry costs 4 and which holds 86(4) + 12(0) = 98(0) at 4 moves;   *)
(* find_lowest_sub returns a non-empty sequence of minimum cost 4 whose    *)
(* first entry costs 4 and which holds 50(2) - 12(0) = 38(1) at 4 moves.   *)
C8_Reference ==
    (IsTestQuery /\ call.cutoff \in {4, DEFAULT_MOVE_CUTOFF}) =>
        /\ ret.value # <<>>
        /\ ret.value[1].moves = 4
        /\ \A e \in Range(ret.value) : e.moves >= 4
        /\ IsSum =>
            [value |-> << <<86, 4>>, "+", <<12, 0>>, "=", <<98, 0>>, 4 >>, moves |-> 4]
                \in Range(ret.value)
        /\ ~IsSum =>
            [value |-> << <<50, 2>>, "-", <<12, 0>>, "=", <<38, 1>>, 4 >>, moves |-> 4]
                \in Range(ret.value)

C8_Witness ==
    /\ IsTestQuery
    /\ call.fn = "find_lowest_sub"
    /\ call.cutoff = DEFAULT_MOVE_CUTOFF
    /\ Len(ret.value) > 1
    /\ ret.value[1].moves = 4

(* C10: with the operand cutoff 4, find_lowest_sum with cutoff <= 4 and    *)
(* find_lowest_sub with cutoff <= 5 return every qualifying triple.        *)
C10_CompleteLowCutoff ==
    (IsSolver /\ call.cutoff <= 4 + Penalty) =>
        \A xy \in Qualifying(call.cutoff) : EntryOf(xy[1], xy[2]) \in Range(ret.value)

C10_Witness ==
    /\ IsTestQuery
    /\ IsSum
    /\ call.cutoff = 4
    /\ \E e \in Range(ret.value) : e.value[1][2] = 4

---------------------------------------------------------------------------
\* the "value(moves)" strings of the entries of a candidate list
StrsOf(list) == {ValueMoveStr(vm) : vm \in Range(list)}

ShowsGenerated(e) ==
    /\ e.value[1] \in StrsOf(generated.first_candidates)
    /\ e.value[3] \in StrsOf(generated.second_candidates)
    /\ e.value[5] \in StrsOf(generated.sum_candidates)

(* C9: combining two candidates makes a new object, and adding the cost    *)
(* of the result candidate changes only that object: at every pass of the  *)
(* loops and after the return, every entry of the three candidate lists    *)
(* has the value and cost it was generated with, and every answer shows    *)
(* its three candidates with those costs.                                  *)
C9_NoAliasing ==
    pc \in {"loop", "done"} =>
        /\ heap.first_candidates = generated.first_candidates
        /\ heap.second_candidates = generated.second_candidates
        /\ heap.sum_candidates = generated.sum_candidates
        /\ iter > 1 => heap.temp = NewRef
        /\ \A e \in Range(heap.answers) : ShowsGenerated(e)
        /\ \A e \in Range(ret.value) : ShowsGenerated(e)

C9_Witness ==
    /\ pc = "done"
    /\ Len(ret.value) >= 2
    /\ heap.temp = NewRef
    /\ \E e \in Range(ret.value) : e.value[1][2] > 0 /\ e.value[5][2] > 0

====
